---- MODULE Spec2Model ----
(***************************************************************************)
(* State-machine model of mtrl/rl/algorithms/mtppo.py: the MTPPO training  *)
(* state container, its three action-sampling operations and its update    *)
(* step (clipped policy loss, optionally clipped value loss).              *)
(*                                                                         *)
(* Numbers are fixed-point integers with unit One.  A PRNG key is the path *)
(* of split indices from the seed, so jax.random.split is injective.       *)
(* A batch mean is kept as an exact fraction [num, den].                   *)
(***************************************************************************)
EXTENDS Integers, Sequences, FiniteSets, TLC

VARIABLES
    state,        \* the MTPPO container the caller currently holds
    config,       \* the MTPPOConfig (and seed) given to initialize
    disable_jit,  \* jax_disable_jit of the process: FALSE = _update_inner is traced
    last,         \* the most recent call: its input, outcome and outputs
    held,         \* keys held by the containers of the run, in order
    derived,      \* sampling keys derived by the calls of the run, in order
    chain,        \* every call so far received the container the previous call returned
    seen,         \* record of the sampling / eval calls made so far
    snapshots,    \* containers the caller has kept
    ncalls,       \* number of calls made
    lossIn,       \* inputs of a stand-alone loss evaluation
    lossOut       \* its results

vars == <<state, config, disable_jit, last, held, derived, chain, seen,
          snapshots, ncalls, lossIn, lossOut>>

lifecycleVars == <<state, config, disable_jit, last, held, derived, chain, seen,
                   snapshots, ncalls>>

lossVars == <<lossIn, lossOut>>

-----------------------------------------------------------------------------
(* Bounds of the model *)

MaxCalls == 3
MaxBatch == 2
ParamMax == 1

(* Fixed-point unit: the literal 1 of "1 - self.clip_eps" *)
One == 4

-----------------------------------------------------------------------------
(* Python None and optional values *)

NoneSeq == [present |-> FALSE, v |-> <<>>]
SomeSeq(s) == [present |-> TRUE, v |-> s]
NoneNum == [present |-> FALSE, v |-> 0]
SomeNum(x) == [present |-> TRUE, v |-> x]

-----------------------------------------------------------------------------
(* Arithmetic helpers *)

RECURSIVE Pow2(_)
Pow2(n) == IF n <= 0 THEN 1 ELSE 2 * Pow2(n - 1)

RECURSIVE SumSeq(_)
SumSeq(s) == IF Len(s) = 0 THEN 0 ELSE Head(s) + SumSeq(Tail(s))

Sign(x) == IF x > 0 THEN 1 ELSE IF x < 0 THEN -1 ELSE 0

(* jnp.exp on a base-2 log grid, rounded down to the fixed-point grid *)
exp(d) == IF d >= 0 THEN One * Pow2(d) ELSE One \div Pow2(-d)

(* jax.lax.clamp(min, x, max) *)
clamp(lo, x, hi) == IF x < lo THEN lo ELSE IF x > hi THEN hi ELSE x

(* jnp.maximum, elementwise *)
maximum(a, b) == IF a >= b THEN a ELSE b

(* x.mean() as an exact fraction *)
mean(s) == [num |-> SumSeq(s), den |-> Len(s)]

-----------------------------------------------------------------------------
(* Random keys: jax.random.PRNGKey and jax.random.split *)

PRNGKey(seed) == <<seed>>

split(key, n) == [i \in 0 .. (n - 1) |-> Append(key, i)]

KeyHash(key) == SumSeq([j \in 1 .. Len(key) |-> key[j] * j]) + Len(key)

(* the standard-normal draw of batch element i under a sampling key *)
Noise(seed, i) == ((KeyHash(seed) + i) % 3) - 1

-----------------------------------------------------------------------------
(* The networks and the action distribution they produce *)

(* ContinuousActionPolicy.apply(params, observation): a location-scale
   distribution; the scale depends on the parameters *)
policy_apply(params, observation) ==
    [loc |-> params * observation, scale |-> 1 + (params % 2)]

(* ValueFunction.apply(params, observation) *)
vf_apply(params, observation) == params * observation

(* net.init(key, dummy_obs): the initial parameters are a function of the key *)
net_init(key) == (KeyHash(key) % (2 * ParamMax - 1)) - (ParamMax - 1)

dist_sample(dist, seed, i) == dist.loc + dist.scale * Noise(seed, i)

(* log-probability of the draw itself: depends on the noise and the scale only *)
dist_sample_log_prob(dist, seed, i) ==
    0 - (Noise(seed, i) * Noise(seed, i)) - (dist.scale - 1)

dist_mode(dist) == dist.loc

dist_stddev(dist) == dist.scale

dist_entropy(dist) == dist.scale - 1

-----------------------------------------------------------------------------
(* TrainState *)

TrainState_create(params) == [params |-> params, step |-> 0, opt_state |-> 0]

(* TrainState.apply_gradients: one optimizer step against the gradient; the
   optimizer state keeps the direction of the last gradient *)
apply_gradients(ts, grads) ==
    [params    |-> clamp(-ParamMax, ts.params - Sign(grads), ParamMax),
     step      |-> ts.step + 1,
     opt_state |-> Sign(grads)]

-----------------------------------------------------------------------------
(* Module-level jitted samplers *)

(* variant: the sampler hands back the key it was given *)
_sample_action_keeps_key(policy, observation, key) ==
    LET ks         == split(key, 2)
        action_key == ks[1]
        dist       == policy_apply(policy.params, observation)
    IN  [action |-> dist_sample(dist, action_key, 1),
         key |-> key,
         action_key |-> action_key]

_sample_action(policy, observation, key) ==
    LET ks         == split(key, 2)
        action_key == ks[1]
        dist       == policy_apply(policy.params, observation)
    IN  [action |-> dist_sample(dist, action_key, 1),
         key |-> ks[0],
         action_key |-> action_key]

_eval_action(policy, observation) ==
    dist_mode(policy_apply(policy.params, observation))

(* variant: the draw comes from a process-wide generator, not from the key *)
_sample_action_dist_and_value_global_rng(policy, value_function, observation, key) ==
    LET ks         == split(key, 2)
        action_key == ks[1]
        dist       == policy_apply(policy.params, observation)
    IN  [action   |-> dist_sample(dist, <<ncalls>>, 1),
         log_prob |-> dist_sample_log_prob(dist, <<ncalls>>, 1),
         mode     |-> dist_mode(dist),
         stddev   |-> dist_stddev(dist),
         value    |-> vf_apply(value_function.params, observation),
         key      |-> ks[0],
         action_key |-> action_key]

_sample_action_dist_and_value(policy, value_function, observation, key) ==
    LET ks         == split(key, 2)
        action_key == ks[1]
        dist       == policy_apply(policy.params, observation)
    IN  [action   |-> dist_sample(dist, action_key, 1),
         log_prob |-> dist_sample_log_prob(dist, action_key, 1),
         mode     |-> dist_mode(dist),
         stddev   |-> dist_stddev(dist),
         value    |-> vf_apply(value_function.params, observation),
         key      |-> ks[0],
         action_key |-> action_key]

-----------------------------------------------------------------------------
(* MTPPOConfig and MTPPO.initialize *)

Seeds == {1}
ClipEps == {0, 1, 2}
Observations == {1, 2}

Configs ==
    [seed                : Seeds,
     num_tasks           : {2},
     gamma               : {One},
     clip_eps            : {1},
     clip_vf_loss        : BOOLEAN,
     entropy_coefficient : {1},
     vf_coefficient      : {0, 1},
     target_kl           : {NoneNum, SomeNum(1)}]

initialize(cfg) ==
    LET master_key == PRNGKey(cfg.seed)
        ks         == split(master_key, 3)
    IN  [num_tasks           |-> cfg.num_tasks,
         policy              |-> TrainState_create(net_init(ks[1])),
         value_function      |-> TrainState_create(net_init(ks[2])),
         key                 |-> ks[0],
         gamma               |-> cfg.gamma,
         clip_eps            |-> cfg.clip_eps,
         clip_vf_loss        |-> cfg.clip_vf_loss,
         entropy_coefficient |-> cfg.entropy_coefficient,
         vf_coefficient      |-> cfg.vf_coefficient,
         target_kl           |-> cfg.target_kl]

-----------------------------------------------------------------------------
(* MTPPO methods: sampling *)

(* Each method returns: ret, the new container if the method returns one;
   out, its other return values; derived, the sampling keys it split off *)

sample_action(self, observation) ==
    LET r == _sample_action(self.policy, observation, self.key)
    IN  [ret     |-> <<[self EXCEPT !.key = r.key]>>,
         out     |-> <<r.action>>,
         derived |-> <<r.action_key>>]

sample_action_dist_and_value(self, observation) ==
    LET r == _sample_action_dist_and_value(self.policy, self.value_function,
                                           observation, self.key)
    IN  [ret     |-> <<[self EXCEPT !.key = r.key]>>,
         out     |-> <<r.action, r.log_prob, r.mode, r.stddev, r.value>>,
         derived |-> <<r.action_key>>]

(* variant: eval_action goes through the sampler and hands back a container *)
eval_action_consumes_key(self, observation) ==
    [ret     |-> <<[self EXCEPT !.key = split(self.key, 2)[0]]>>,
     out     |-> <<_eval_action(self.policy, observation)>>,
     derived |-> <<split(self.key, 2)[1]>>]

eval_action(self, observation) ==
    [ret     |-> <<>>,
     out     |-> <<_eval_action(self.policy, observation)>>,
     derived |-> <<>>]

-----------------------------------------------------------------------------
(* Exceptions and log dictionaries *)

NoErr == [type |-> "", msg |-> ""]
Raise(type, msg) == [type |-> type, msg |-> msg]

NoLogs == [k \in {} |-> mean(<<>>)]

(* dict union  a | b : the right operand wins on a shared key *)
MergeLogs(a, b) ==
    [k \in (DOMAIN a) \cup (DOMAIN b) |-> IF k \in DOMAIN b THEN b[k] ELSE a[k]]

(* float(x) inside the update step: the scalar is a tracer while _update_inner is
   being traced by jax.jit, and float() of a tracer raises; with jit disabled the
   scalar is concrete and float() returns its value *)
FloatRaises == ~disable_jit

-----------------------------------------------------------------------------
(* Rollout batches: every per-sample field is a column of length B; the value
   function's output has shape (B, 1) *)

BatchLen(data) == Len(data.observations)

-----------------------------------------------------------------------------
(* MTPPO.update_policy and its policy_loss closure *)

action_dist(data, params) ==
    [i \in 1 .. BatchLen(data) |-> policy_apply(params, data.observations[i])]

new_log_probs(data, policy_loss_key, params) ==
    [i \in 1 .. BatchLen(data) |->
        dist_sample_log_prob(action_dist(data, params)[i], policy_loss_key, i)]

ratio(data, policy_loss_key, params) ==
    [i \in 1 .. BatchLen(data) |->
        exp(new_log_probs(data, policy_loss_key, params)[i] - data.log_probs.v[i])]

pg_loss1(advantage, r) == (0 - advantage) * r

(* variant: the operands of clamp in the order (x, min, max) *)
pg_loss2_operand_order(clip_eps, advantage, r) ==
    (0 - advantage) * clamp(r, One - clip_eps, One + clip_eps)

pg_loss2(clip_eps, advantage, r) ==
    (0 - advantage) * clamp(One - clip_eps, r, One + clip_eps)

pg_loss_term(clip_eps, advantage, r) ==
    maximum(pg_loss1(advantage, r), pg_loss2(clip_eps, advantage, r))

policy_loss(self, data, policy_loss_key, params) ==
    LET rt           == ratio(data, policy_loss_key, params)
        pg_loss      == mean([i \in 1 .. BatchLen(data) |->
                              pg_loss_term(self.clip_eps, data.advantages.v[i], rt[i])])
        entropy_loss == mean([i \in 1 .. BatchLen(data) |->
                              dist_entropy(action_dist(data, params)[i])])
    IN  IF ~data.log_probs.present
        THEN [err |-> Raise("TypeError", "unsupported operand: array - None"),
              loss |-> 0, logs |-> NoLogs]
        ELSE IF ~data.advantages.present
        THEN [err |-> Raise("TypeError", "bad operand type for unary -: NoneType"),
              loss |-> 0, logs |-> NoLogs]
        ELSE IF FloatRaises
        THEN [err |-> Raise("ConcretizationTypeError", "float() of a traced value"),
              loss |-> 0, logs |-> NoLogs]
        ELSE [err  |-> NoErr,
              loss |-> pg_loss.num - self.entropy_coefficient * entropy_loss.num * One,
              logs |-> [k \in {"losses/entropy_loss", "losses/policy_loss"} |->
                          IF k = "losses/entropy_loss" THEN entropy_loss ELSE pg_loss]]

(* variant: with a target_kl set the policy step stops early, gradient unapplied *)
update_policy_target_kl_gate(self, data) ==
    LET ks              == split(self.key, 2)
        key             == ks[0]
        policy_loss_key == ks[1]
        step(here) ==
            LET next         == policy_loss(self, data, policy_loss_key,
                                            self.policy.params + 1)
                policy_grads == next.loss - here.loss
            IN  IF here.err # NoErr
                THEN [err |-> here.err, self |-> self, logs |-> NoLogs,
                      policy_loss_key |-> policy_loss_key]
                ELSE [err  |-> NoErr,
                      self |-> IF self.target_kl.present
                               THEN [self EXCEPT !.key = key]
                               ELSE [self EXCEPT
                                       !.policy = apply_gradients(self.policy,
                                                                  policy_grads),
                                       !.key = key],
                      logs |-> here.logs,
                      policy_loss_key |-> policy_loss_key]
    IN  step(policy_loss(self, data, policy_loss_key, self.policy.params))

(* jax.value_and_grad(policy_loss, has_aux=True)(params): the gradient is the
   forward difference of the loss in the parameter *)
update_policy(self, data) ==
    LET ks              == split(self.key, 2)
        key             == ks[0]
        policy_loss_key == ks[1]
        step(here) ==
            LET next         == policy_loss(self, data, policy_loss_key,
                                            self.policy.params + 1)
                policy_grads == next.loss - here.loss
            IN  IF here.err # NoErr
                THEN [err |-> here.err, self |-> self, logs |-> NoLogs,
                      policy_loss_key |-> policy_loss_key]
                ELSE [err  |-> NoErr,
                      self |-> [self EXCEPT
                                  !.policy = apply_gradients(self.policy, policy_grads),
                                  !.key = key],
                      logs |-> here.logs,
                      policy_loss_key |-> policy_loss_key]
    IN  step(policy_loss(self, data, policy_loss_key, self.policy.params))

-----------------------------------------------------------------------------
(* MTPPO.update_value_function and its value_function_loss closure *)

new_values(data, params) ==
    [i \in 1 .. BatchLen(data) |-> vf_apply(params, data.observations[i])]

new_values_shape(data) == <<BatchLen(data), 1>>

vf_loss_unclipped(new_value, ret) == (new_value - ret) * (new_value - ret)

(* variant: the operands of clamp in the order (x, min, max) *)
v_clipped_operand_order(clip_eps, new_value, old_value) ==
    old_value + clamp(new_value - old_value, 0 - clip_eps, clip_eps)

v_clipped(clip_eps, new_value, old_value) ==
    old_value + clamp(0 - clip_eps, new_value - old_value, clip_eps)

vf_loss_clipped(clip_eps, new_value, old_value, ret) ==
    (v_clipped(clip_eps, new_value, old_value) - ret)
        * (v_clipped(clip_eps, new_value, old_value) - ret)

(* variant: the smaller of the two squared errors *)
vf_loss_term_minimum(clip_vf_loss, clip_eps, new_value, old_value, ret) ==
    IF clip_vf_loss
    THEN 0 - maximum(0 - vf_loss_unclipped(new_value, ret),
                     0 - vf_loss_clipped(clip_eps, new_value, old_value, ret))
    ELSE vf_loss_unclipped(new_value, ret)

(* the per-sample squared error that enters the batch mean *)
vf_loss_term(clip_vf_loss, clip_eps, new_value, old_value, ret) ==
    IF clip_vf_loss
    THEN maximum(vf_loss_unclipped(new_value, ret),
                 vf_loss_clipped(clip_eps, new_value, old_value, ret))
    ELSE vf_loss_unclipped(new_value, ret)

(* vf_loss = 0.5 * mean(terms) *)
vf_loss(self, data, params) ==
    LET terms == [i \in 1 .. BatchLen(data) |->
                    vf_loss_term(self.clip_vf_loss, self.clip_eps,
                                 new_values(data, params)[i],
                                 IF self.clip_vf_loss THEN data.values.v[i] ELSE 0,
                                 data.returns.v[i])]
    IN  [num |-> mean(terms).num, den |-> 2 * mean(terms).den]

(* variant: no shape assertion; a differently shaped returns broadcasts *)
value_function_loss_no_shape_check(self, data, params) ==
    IF ~data.returns.present
    THEN [err |-> Raise("ValueError", "chex.assert_equal_shape: not an array"),
          loss |-> 0, logs |-> NoLogs]
    ELSE IF self.clip_vf_loss /\ ~data.values.present
    THEN [err |-> Raise("TypeError", "unsupported operand: array - None"),
          loss |-> 0, logs |-> NoLogs]
    ELSE IF FloatRaises
    THEN [err |-> Raise("ConcretizationTypeError", "float() of a traced value"),
          loss |-> 0, logs |-> NoLogs]
    ELSE [err  |-> NoErr,
          loss |-> self.vf_coefficient * vf_loss(self, data, params).num,
          logs |-> [k \in {"losses/value_function", "losses/values"} |->
                      IF k = "losses/value_function"
                      THEN vf_loss(self, data, params)
                      ELSE mean(new_values(data, params))]]

value_function_loss(self, data, params) ==
    IF ~data.returns.present
    THEN [err |-> Raise("ValueError", "chex.assert_equal_shape: not an array"),
          loss |-> 0, logs |-> NoLogs]
    ELSE IF new_values_shape(data) # data.returns_shape
    THEN [err |-> Raise("AssertionError", "chex.assert_equal_shape"),
          loss |-> 0, logs |-> NoLogs]
    ELSE IF self.clip_vf_loss /\ ~data.values.present
    THEN [err |-> Raise("TypeError", "unsupported operand: array - None"),
          loss |-> 0, logs |-> NoLogs]
    ELSE IF FloatRaises
    THEN [err |-> Raise("ConcretizationTypeError", "float() of a traced value"),
          loss |-> 0, logs |-> NoLogs]
    ELSE [err  |-> NoErr,
          loss |-> self.vf_coefficient * vf_loss(self, data, params).num,
          logs |-> [k \in {"losses/value_function", "losses/values"} |->
                      IF k = "losses/value_function"
                      THEN vf_loss(self, data, params)
                      ELSE mean(new_values(data, params))]]

update_value_function(self, data) ==
    LET step(here) ==
            LET next     == value_function_loss(self, data,
                                                self.value_function.params + 1)
                vf_grads == next.loss - here.loss
            IN  IF here.err # NoErr
                THEN [err |-> here.err, self |-> self, logs |-> NoLogs]
                ELSE [err  |-> NoErr,
                      self |-> [self EXCEPT
                                  !.value_function =
                                      apply_gradients(self.value_function, vf_grads)],
                      logs |-> here.logs]
    IN  step(value_function_loss(self, data, self.value_function.params))

-----------------------------------------------------------------------------
(* MTPPO._update_inner and MTPPO.update *)

(* variant: the value step starts from the container passed in, and its result,
   which still holds the old policy and key, is what is returned *)
_update_inner_drops_policy_step(self, data) ==
    LET value_step(p, v) ==
            IF v.err # NoErr
            THEN [err |-> v.err, ret |-> <<>>, logs |-> NoLogs,
                  derived |-> <<p.policy_loss_key>>]
            ELSE [err |-> NoErr, ret |-> <<v.self>>, logs |-> MergeLogs(p.logs, v.logs),
                  derived |-> <<p.policy_loss_key>>]
        policy_step(p) ==
            IF p.err # NoErr
            THEN [err |-> p.err, ret |-> <<>>, logs |-> NoLogs,
                  derived |-> <<p.policy_loss_key>>]
            ELSE value_step(p, update_value_function(self, data))
    IN  policy_step(update_policy(self, data))

_update_inner(self, data) ==
    LET value_step(p, v) ==
            IF v.err # NoErr
            THEN [err |-> v.err, ret |-> <<>>, logs |-> NoLogs,
                  derived |-> <<p.policy_loss_key>>]
            ELSE [err |-> NoErr, ret |-> <<v.self>>, logs |-> MergeLogs(p.logs, v.logs),
                  derived |-> <<p.policy_loss_key>>]
        policy_step(p) ==
            IF p.err # NoErr
            THEN [err |-> p.err, ret |-> <<>>, logs |-> NoLogs,
                  derived |-> <<p.policy_loss_key>>]
            ELSE value_step(p, update_value_function(p.self, data))
    IN  policy_step(update_policy(self, data))

(* variant: the check of advantages is missing *)
update_without_advantages_check(self, data) ==
    IF data.kind # "Rollout"
    THEN [err |-> Raise("AssertionError", "MTPPO does not support replay buffer samples."),
          ret |-> <<>>, logs |-> NoLogs, derived |-> <<>>]
    ELSE IF ~data.log_probs.present
    THEN [err |-> Raise("AssertionError", "Rollout policy log probs must have been recorded."),
          ret |-> <<>>, logs |-> NoLogs, derived |-> <<>>]
    ELSE IF ~data.returns.present
    THEN [err |-> Raise("AssertionError", "Returns must be computed for MTPPO."),
          ret |-> <<>>, logs |-> NoLogs, derived |-> <<>>]
    ELSE _update_inner(self, data)

update(self, data) ==
    IF data.kind # "Rollout"
    THEN [err |-> Raise("AssertionError", "MTPPO does not support replay buffer samples."),
          ret |-> <<>>, logs |-> NoLogs, derived |-> <<>>]
    ELSE IF ~data.log_probs.present
    THEN [err |-> Raise("AssertionError", "Rollout policy log probs must have been recorded."),
          ret |-> <<>>, logs |-> NoLogs, derived |-> <<>>]
    ELSE IF ~data.advantages.present
    THEN [err |-> Raise("AssertionError", "GAE must be enabled for MTPPO."),
          ret |-> <<>>, logs |-> NoLogs, derived |-> <<>>]
    ELSE IF ~data.returns.present
    THEN [err |-> Raise("AssertionError", "Returns must be computed for MTPPO."),
          ret |-> <<>>, logs |-> NoLogs, derived |-> <<>>]
    ELSE _update_inner(self, data)


-----------------------------------------------------------------------------
(* Inputs: observation batches handed to update *)

SeqsUpTo(S, n) == UNION {[1 .. k -> S] : k \in 1 .. n}

MkRollout(ss, hasLogProbs, hasAdvantages, hasReturns, hasValues, columnShape) ==
    LET col(f(_)) == [i \in 1 .. Len(ss) |-> f(ss[i])]
        obsOf(x) == x.obs
        lpOf(x)  == x.log_prob
        advOf(x) == x.advantage
        retOf(x) == x.ret
        valOf(x) == x.value
    IN  [kind          |-> "Rollout",
         observations  |-> col(obsOf),
         log_probs     |-> IF hasLogProbs THEN SomeSeq(col(lpOf)) ELSE NoneSeq,
         advantages    |-> IF hasAdvantages THEN SomeSeq(col(advOf)) ELSE NoneSeq,
         returns       |-> IF hasReturns THEN SomeSeq(col(retOf)) ELSE NoneSeq,
         returns_shape |-> IF ~hasReturns THEN <<>>
                           ELSE IF columnShape THEN <<Len(ss), 1>> ELSE <<Len(ss)>>,
         values        |-> IF hasValues THEN SomeSeq(col(valOf)) ELSE NoneSeq]

MkReplayBufferSamples(ss) ==
    [kind          |-> "ReplayBufferSamples",
     observations  |-> [i \in 1 .. Len(ss) |-> ss[i].obs],
     log_probs     |-> NoneSeq,
     advantages    |-> NoneSeq,
     returns       |-> NoneSeq,
     returns_shape |-> <<>>,
     values        |-> NoneSeq]

PresenceFlags == [1 .. 5 -> BOOLEAN]

(* rollouts that pass the checks of update: values and the shape of returns vary *)
CompleteRollouts(S) ==
    {MkRollout(ss, TRUE, TRUE, TRUE, f[4], f[5]) :
        ss \in SeqsUpTo(S, MaxBatch), f \in PresenceFlags}

(* rollouts with log_probs, advantages or returns absent, in every combination *)
IncompleteRollouts(S) ==
    {MkRollout(ss, f[1], f[2], f[3], f[4], f[5]) :
        ss \in SeqsUpTo(S, 1),
        f \in {g \in PresenceFlags : ~(g[1] /\ g[2] /\ g[3])}}

(* the checks and the bookkeeping of update do not read the numbers of a batch;
   the run uses one sample value, the loss evaluations below vary the numbers *)
StepSamples ==
    [obs : {1}, log_prob : {0}, advantage : {One}, ret : {One}, value : {0}]

UpdateInputs ==
    CompleteRollouts(StepSamples)
        \cup IncompleteRollouts(StepSamples)
        \cup {MkReplayBufferSamples(ss) : ss \in SeqsUpTo(StepSamples, 1)}

(* what the checks of update read from a batch *)
Summary(data) ==
    [kind       |-> data.kind,
     log_probs  |-> data.log_probs.present,
     advantages |-> data.advantages.present,
     returns    |-> data.returns.present,
     values     |-> data.values.present,
     same_shape |-> data.returns_shape = new_values_shape(data)]

NoSummary ==
    [kind |-> "", log_probs |-> FALSE, advantages |-> FALSE, returns |-> FALSE,
     values |-> FALSE, same_shape |-> FALSE]

-----------------------------------------------------------------------------
(* The run: Init is the state after initialize; one action per public method.
   The caller holds the container a method returns; when a method returns none
   (eval_action, or update raising) the caller keeps the one it passed. *)

NoStep == [err |-> NoErr, self |-> <<>>, logs |-> NoLogs]

NoCall ==
    [op |-> "initialize", pre |-> <<>>, obs |-> 0, data |-> NoSummary,
     err |-> NoErr, ret |-> <<>>, out |-> <<>>, logs |-> NoLogs,
     policy_alone |-> NoStep, vf_alone |-> NoStep, vf_first |-> NoStep,
     without_target_kl |-> <<>>]

InitRun(cfg) ==
    /\ config = cfg
    /\ state = initialize(cfg)
    /\ last = NoCall
    /\ held = <<PRNGKey(cfg.seed), split(PRNGKey(cfg.seed), 3)[0]>>
    /\ derived = <<split(PRNGKey(cfg.seed), 3)[1], split(PRNGKey(cfg.seed), 3)[2]>>
    /\ chain = TRUE
    /\ seen = <<>>
    /\ snapshots = <<>>
    /\ ncalls = 0

Init ==
    /\ \E cfg \in Configs : InitRun(cfg)
    /\ disable_jit \in BOOLEAN
    /\ lossIn = <<>>
    /\ lossOut = <<>>

(* bookkeeping shared by the calls: r is what the method returned *)
Called(op, observation, summary, r, ghost) ==
    /\ state' = IF r.ret = <<>> THEN state ELSE r.ret[1]
    /\ last' = [op |-> op, pre |-> <<state>>, obs |-> observation, data |-> summary,
                err |-> r.err, ret |-> r.ret, out |-> r.out, logs |-> r.logs,
                policy_alone |-> ghost.policy_alone, vf_alone |-> ghost.vf_alone,
                vf_first |-> ghost.vf_first,
                without_target_kl |-> ghost.without_target_kl]
    /\ held' = IF r.ret = <<>> THEN held ELSE Append(held, r.ret[1].key)
    /\ derived' = derived \o r.derived
    /\ chain' = (chain /\ (r.ret # <<>> \/ op = "eval_action"))
    /\ ncalls' = ncalls + 1
    /\ UNCHANGED <<config, disable_jit, seen, snapshots, lossVars>>

NoGhost ==
    [policy_alone |-> NoStep, vf_alone |-> NoStep, vf_first |-> NoStep,
     without_target_kl |-> <<>>]

Returned(r) == [ret |-> r.ret, out |-> r.out, derived |-> r.derived,
                err |-> NoErr, logs |-> NoLogs]

SampleAction(observation) ==
    /\ ncalls < MaxCalls
    /\ \E r \in {sample_action(state, observation)} :
           Called("sample_action", observation, NoSummary, Returned(r), NoGhost)

SampleActionDistAndValue(observation) ==
    /\ ncalls < MaxCalls
    /\ \E r \in {sample_action_dist_and_value(state, observation)} :
           Called("sample_action_dist_and_value", observation, NoSummary, Returned(r),
                  NoGhost)

EvalAction(observation) ==
    /\ ncalls < MaxCalls
    /\ \E r \in {eval_action(state, observation)} :
           Called("eval_action", observation, NoSummary, Returned(r), NoGhost)

Brief(step) == [err |-> step.err,
                self |-> IF step.err = NoErr THEN <<step.self>> ELSE <<>>,
                logs |-> step.logs]

(* the two steps of the update taken alone and in the other order, and the same
   update on a container without target_kl: what the update is compared with *)
Comparisons(self, data, r) ==
    IF r.derived = <<>>
    THEN NoGhost
    ELSE LET both(v) ==
                 [policy_alone |-> Brief(update_policy(self, data)),
                  vf_alone     |-> Brief(v),
                  vf_first     |-> IF v.err # NoErr THEN Brief(v)
                                   ELSE Brief(update_policy(v.self, data)),
                  without_target_kl |->
                      IF self.target_kl.present
                      THEN <<update([self EXCEPT !.target_kl = NoneNum], data)>>
                      ELSE <<>>]
         IN  both(update_value_function(self, data))

Update(data) ==
    /\ ncalls < MaxCalls
    /\ \E r \in {update(state, data)} :
           \E ghost \in {Comparisons(state, data, r)} :
               Called("update", 0, Summary(data),
                      [ret |-> r.ret, out |-> <<>>, derived |-> r.derived,
                       err |-> r.err, logs |-> r.logs],
                      ghost)

(* MaxCalls bounds the length of the run *)
Next ==
    \/ \E observation \in Observations : SampleAction(observation)
    \/ \E observation \in Observations : SampleActionDistAndValue(observation)
    \/ \E observation \in Observations : EvalAction(observation)
    \/ \E data \in UpdateInputs : Update(data)

Spec == Init /\ [][Next]_vars

-----------------------------------------------------------------------------
(* Replaying calls: the caller may keep a container aside and later pass it
   again (the earlier container stays valid), and one earlier sampling or eval
   call is remembered to compare a later call with *)

Keep ==
    /\ snapshots = <<>>
    /\ snapshots' = <<state>>
    /\ UNCHANGED <<state, config, disable_jit, last, held, derived, chain, seen,
                   ncalls, lossVars>>

Restore ==
    /\ snapshots # <<>>
    /\ state # snapshots[1]
    /\ state' = snapshots[1]
    /\ chain' = FALSE
    /\ UNCHANGED <<config, disable_jit, last, held, derived, seen, snapshots, ncalls,
                   lossVars>>

Remember ==
    /\ seen = <<>>
    /\ last.op \in {"sample_action", "sample_action_dist_and_value", "eval_action"}
    /\ seen' = <<[idx |-> ncalls, op |-> last.op, pre |-> last.pre, obs |-> last.obs,
                  ret |-> last.ret, out |-> last.out]>>
    /\ UNCHANGED <<state, config, disable_jit, last, held, derived, chain, snapshots,
                   ncalls, lossVars>>

ReplayConfigs == {cfg \in Configs : ~cfg.target_kl.present}

ReplayUpdateInputs ==
    {d \in CompleteRollouts(StepSamples) :
        d.values.present /\ d.returns_shape = new_values_shape(d)}

InitReplay ==
    /\ \E cfg \in ReplayConfigs : InitRun(cfg)
    /\ disable_jit = TRUE
    /\ lossIn = <<>>
    /\ lossOut = <<>>

NextReplay ==
    \/ \E observation \in Observations : SampleAction(observation)
    \/ \E observation \in Observations : SampleActionDistAndValue(observation)
    \/ \E observation \in Observations : EvalAction(observation)
    \/ \E data \in ReplayUpdateInputs : Update(data)
    \/ Keep
    \/ Restore
    \/ Remember

SpecReplay == InitReplay /\ [][NextReplay]_vars

-----------------------------------------------------------------------------
(* The two loss closures evaluated on their own: a container with any parameters
   and clip settings, a complete rollout with varied numbers, any sampling key *)

DefaultConfig ==
    [seed |-> 1, num_tasks |-> 2, gamma |-> One, clip_eps |-> 1,
     clip_vf_loss |-> TRUE, entropy_coefficient |-> 1, vf_coefficient |-> 1,
     target_kl |-> NoneNum]

Params == (0 - ParamMax) .. ParamMax

LossContainers ==
    {[initialize(DefaultConfig) EXCEPT !.policy.params = p,
                                       !.value_function.params = p,
                                       !.clip_eps = e,
                                       !.clip_vf_loss = c] :
        p \in Params, e \in ClipEps, c \in BOOLEAN}

PolicyLossSamples ==
    [obs : {1}, log_prob : {-2, 0}, advantage : {0 - One, One}, ret : {0}, value : {0}]

ValueLossSamples ==
    [obs : {1, 2}, log_prob : {0}, advantage : {One}, ret : {0 - One, One},
     value : {-3, 3}]

LossKeys == {<<1, 0, 1>>, <<1, 0, 0, 1>>, <<1, 0, 0, 0, 1>>}

LossInputs ==
    {[kind |-> "policy", self |-> c,
      data |-> MkRollout(ss, TRUE, TRUE, TRUE, TRUE, TRUE), key |-> k] :
        c \in {x \in LossContainers : x.clip_vf_loss},
        ss \in SeqsUpTo(PolicyLossSamples, MaxBatch), k \in LossKeys}
    \cup
    {[kind |-> "value", self |-> c,
      data |-> MkRollout(ss, TRUE, TRUE, TRUE, TRUE, TRUE), key |-> <<>>] :
        c \in LossContainers, ss \in SeqsUpTo(ValueLossSamples, MaxBatch)}

InitLoss ==
    /\ InitRun(DefaultConfig)
    /\ disable_jit = TRUE
    /\ lossIn \in LossInputs
    /\ lossOut = <<>>

PolicyLoss ==
    /\ lossIn.kind = "policy"
    /\ lossOut = <<>>
    /\ lossOut' = [ratio  |-> ratio(lossIn.data, lossIn.key, lossIn.self.policy.params),
                   result |-> policy_loss(lossIn.self, lossIn.data, lossIn.key,
                                          lossIn.self.policy.params)]
    /\ UNCHANGED <<lifecycleVars, lossIn>>

(* the value loss of the same container and rollout with clip_vf_loss set and
   with it unset *)
ValueFunctionLoss ==
    /\ lossIn.kind = "value"
    /\ lossOut = <<>>
    /\ lossOut' =
           [new_values |-> new_values(lossIn.data, lossIn.self.value_function.params),
            result     |-> value_function_loss(lossIn.self, lossIn.data,
                                               lossIn.self.value_function.params),
            clipped    |-> value_function_loss(
                               [lossIn.self EXCEPT !.clip_vf_loss = TRUE], lossIn.data,
                               lossIn.self.value_function.params),
            unclipped  |-> value_function_loss(
                               [lossIn.self EXCEPT !.clip_vf_loss = FALSE], lossIn.data,
                               lossIn.self.value_function.params)]
    /\ UNCHANGED <<lifecycleVars, lossIn>>

NextLoss == PolicyLoss \/ ValueFunctionLoss

SpecLoss == InitLoss /\ [][NextLoss]_vars

-----------------------------------------------------------------------------
(* Properties of the run *)

Hyperparameters(c) ==
    [num_tasks |-> c.num_tasks, gamma |-> c.gamma, clip_eps |-> c.clip_eps,
     clip_vf_loss |-> c.clip_vf_loss, entropy_coefficient |-> c.entropy_coefficient,
     vf_coefficient |-> c.vf_coefficient, target_kl |-> c.target_kl]

PreconditionMessages ==
    {"MTPPO does not support replay buffer samples.",
     "Rollout policy log probs must have been recorded.",
     "GAE must be enabled for MTPPO.",
     "Returns must be computed for MTPPO."}

AllLogKeys ==
    {"losses/entropy_loss", "losses/policy_loss", "losses/value_function",
     "losses/values"}

(* the four checks of update *)
PassesChecks(d) ==
    d.kind = "Rollout" /\ d.log_probs /\ d.advantages /\ d.returns

Distinct(s) == \A i, j \in 1 .. Len(s) : i # j => s[i] # s[j]

(* C1: whenever update is given a batch that is not a Rollout, or a Rollout with
   log_probs, advantages or returns absent (in any combination, in any state),
   the call fails one of update's own assertions, returns no container and no
   logs, and the caller's container is the one it passed. *)
C1_UpdateRejectsIncompleteData ==
    (last.op = "update" /\ ~PassesChecks(last.data))
        => /\ last.err.type = "AssertionError"
           /\ last.err.msg \in PreconditionMessages
           /\ last.ret = <<>>
           /\ DOMAIN last.logs = {}
           /\ state = last.pre[1]

C1_Witness ==
    /\ last.op = "update"
    /\ last.data.kind = "Rollout"
    /\ last.data.log_probs /\ ~last.data.advantages /\ last.data.returns
    /\ last.err.type = "AssertionError"
    /\ last.pre[1].policy.step > 0

(* C2 as stated: every batch that passes the four checks of update makes update
   return a new container and the full log mapping; no error arises after the
   checks. *)
C2_NoErrorAfterValidation ==
    (last.op = "update" /\ PassesChecks(last.data))
        => /\ last.err = NoErr
           /\ last.ret # <<>>
           /\ DOMAIN last.logs = AllLogKeys

(* the conditions, beyond the four checks, under which the update step completes *)
StepCompletes(self, d) ==
    /\ d.same_shape
    /\ self.clip_vf_loss => d.values
    /\ disable_jit

(* C2 amended: a batch that passes the four checks makes update return a new
   container (both optimizers advanced by one step, hyperparameters kept) and
   the four-key log mapping exactly when the shape of returns equals the shape
   of the value function's output, the stored values are present if
   clip_vf_loss is set, and the step's scalars are concrete; otherwise the call
   raises after the checks, from inside the update step, and returns nothing. *)
C2_ErrorPathsAfterValidation ==
    (last.op = "update" /\ PassesChecks(last.data))
        => IF StepCompletes(last.pre[1], last.data)
           THEN /\ last.err = NoErr
                /\ Len(last.ret) = 1
                /\ last.ret[1].policy.step = last.pre[1].policy.step + 1
                /\ last.ret[1].value_function.step
                       = last.pre[1].value_function.step + 1
                /\ Hyperparameters(last.ret[1]) = Hyperparameters(last.pre[1])
                /\ DOMAIN last.logs = AllLogKeys
           ELSE /\ last.err # NoErr
                /\ last.err.msg \notin PreconditionMessages
                /\ last.err.type = (IF ~disable_jit THEN "ConcretizationTypeError"
                                    ELSE IF ~last.data.same_shape THEN "AssertionError"
                                    ELSE "TypeError")
                /\ last.ret = <<>>
                /\ DOMAIN last.logs = {}
                /\ state = last.pre[1]

C2_Witness ==
    /\ last.op = "update"
    /\ PassesChecks(last.data)
    /\ disable_jit
    /\ last.data.same_shape
    /\ last.pre[1].clip_vf_loss /\ ~last.data.values
    /\ last.err.type = "TypeError"

C2_WitnessCompletes ==
    /\ last.op = "update"
    /\ PassesChecks(last.data)
    /\ StepCompletes(last.pre[1], last.data)
    /\ last.ret # <<>>

(* C3: while every call has received the container the previous call returned,
   the keys held by the containers of the run are pairwise different (so each
   returned key differs from the one received and from all earlier ones), the
   sampling keys split off by the calls are pairwise different, and no sampling
   key is a key some container held. *)
C3_NoKeyReuse ==
    chain => /\ Distinct(held)
             /\ Distinct(derived)
             /\ \A i \in 1 .. Len(held), j \in 1 .. Len(derived) : held[i] # derived[j]

C3_Witness ==
    /\ chain
    /\ last.op = "update" /\ last.ret # <<>>
    /\ Len(held) >= 5
    /\ Len(derived) >= 5

(* C5: the container sample_action and sample_action_dist_and_value return is
   the one passed with only its key replaced; eval_action returns no container
   and the caller's container, key included, is the one it passed, so a
   sampling call after it splits the same key as without it. *)
C5_SamplingChangesOnlyKey ==
    /\ last.op \in {"sample_action", "sample_action_dist_and_value"}
           => /\ Len(last.ret) = 1
              /\ last.ret[1] = [last.pre[1] EXCEPT !.key = last.ret[1].key]
              /\ last.ret[1].key # last.pre[1].key
              /\ state = last.ret[1]
    /\ last.op = "eval_action"
           => /\ last.ret = <<>>
              /\ state = last.pre[1]
              /\ sample_action(state, last.obs) = sample_action(last.pre[1], last.obs)

C5_Witness ==
    /\ last.op = "eval_action"
    /\ last.pre[1].policy.step > 0
    /\ Len(held) >= 4

(* C6: every container of the run carries the hyperparameters of the
   configuration it was initialized from; and an update does the same with and
   without a target_kl: both optimizers take their step, and the returned
   container, error and logs equal those of the same update on a container
   whose target_kl is None. *)
C6_HyperparametersFixed ==
    /\ Hyperparameters(state) = Hyperparameters(config)
    /\ \A i \in 1 .. Len(last.ret) :
           Hyperparameters(last.ret[i]) = Hyperparameters(config)
    /\ last.op = "update" /\ last.ret # <<>>
           => /\ last.ret[1].policy.step = last.pre[1].policy.step + 1
              /\ last.ret[1].value_function.step = last.pre[1].value_function.step + 1
    /\ last.op = "update" /\ last.pre[1].target_kl.present /\ PassesChecks(last.data)
           => Len(last.without_target_kl) = 1
    /\ \A i \in 1 .. Len(last.without_target_kl) :
           LET w == last.without_target_kl[i]
           IN  /\ w.err = last.err
               /\ w.logs = last.logs
               /\ Len(w.ret) = Len(last.ret)
               /\ \A k \in 1 .. Len(w.ret) :
                      w.ret[k] = [last.ret[k] EXCEPT !.target_kl = NoneNum]

C6_Witness ==
    /\ last.op = "update" /\ last.ret # <<>>
    /\ last.pre[1].target_kl.present
    /\ last.pre[1].policy.step > 0
    /\ last.ret[1].policy.params # last.pre[1].policy.params

(* C10: in an update that returns, the policy and key of the new container are
   those update_policy alone produces from the container passed, and its value
   function is the one update_value_function alone produces from it;
   update_policy leaves value_function as it was and update_value_function
   leaves policy and key as they were; taking the value step first gives the
   same container; the logs are the two steps' logs together, with no key in
   common. *)
C10_StepsIndependent ==
    (last.op = "update" /\ last.ret # <<>>)
        => LET p   == last.policy_alone
               v   == last.vf_alone
               new == last.ret[1]
               old == last.pre[1]
           IN  /\ p.err = NoErr /\ v.err = NoErr /\ last.vf_first.err = NoErr
               /\ new.policy = p.self[1].policy
               /\ new.key = p.self[1].key
               /\ new.value_function = v.self[1].value_function
               /\ p.self[1].value_function = old.value_function
               /\ v.self[1].policy = old.policy
               /\ v.self[1].key = old.key
               /\ last.vf_first.self[1] = new
               /\ (DOMAIN p.logs) \cap (DOMAIN v.logs) = {}
               /\ DOMAIN last.logs = (DOMAIN p.logs) \cup (DOMAIN v.logs)
               /\ \A k \in DOMAIN p.logs : last.logs[k] = p.logs[k]
               /\ \A k \in DOMAIN v.logs : last.logs[k] = v.logs[k]

C10_Witness ==
    /\ last.op = "update" /\ last.ret # <<>>
    /\ last.ret[1].policy.params # last.pre[1].policy.params
    /\ last.ret[1].value_function.params # last.pre[1].value_function.params


(* C4: a sampling call made on a container equal to the one an earlier sampling
   call of the same method received, with the same observation, returns the
   same outputs and the same new container (new key included); an eval_action
   call returns what an earlier eval_action call returned for the same policy
   parameters and observation, whatever was called in between. *)
C4_SamplingAndEvalDeterministic ==
    \A i \in 1 .. Len(seen) :
        (last.op = seen[i].op /\ last.obs = seen[i].obs)
            => /\ (last.op \in {"sample_action", "sample_action_dist_and_value"}
                      /\ last.pre = seen[i].pre)
                   => (last.out = seen[i].out /\ last.ret = seen[i].ret)
               /\ (last.op = "eval_action"
                      /\ last.pre[1].policy.params = seen[i].pre[1].policy.params)
                   => last.out = seen[i].out

C4_Witness ==
    /\ seen # <<>>
    /\ seen[1].idx < ncalls
    /\ last.op = "sample_action_dist_and_value"
    /\ last.op = seen[1].op /\ last.obs = seen[1].obs /\ last.pre = seen[1].pre
    /\ last.pre[1].policy.step > 0

C4_WitnessEval ==
    /\ seen # <<>>
    /\ seen[1].idx < ncalls
    /\ last.op = "eval_action"
    /\ last.op = seen[1].op /\ last.obs = seen[1].obs
    /\ last.pre[1].policy.params = seen[1].pre[1].policy.params
    /\ last.pre[1].key # seen[1].pre[1].key

-----------------------------------------------------------------------------
(* Properties of the losses *)

Evaluated(kind) == lossOut # <<>> /\ lossIn.kind = kind

Batch == 1 .. BatchLen(lossIn.data)

Sq(x) == x * x

Abs(x) == IF x < 0 THEN 0 - x ELSE x

Larger(a, b) == IF a >= b THEN a ELSE b

(* the ratio limited to [1 - eps, 1 + eps] *)
Limited(r, eps) ==
    IF r < One - eps THEN One - eps ELSE IF r > One + eps THEN One + eps ELSE r

(* C7: the policy loss is the batch mean of the per-sample terms
   max(-advantage * ratio, -advantage * ratio limited to [1 - eps, 1 + eps]);
   so a sample with advantage > 0 and ratio > 1 + eps contributes
   -advantage * (1 + eps), which is not the unclipped -advantage * ratio. *)
C7_RatioClipping ==
    Evaluated("policy")
        => LET adv  == lossIn.data.advantages.v
               eps  == lossIn.self.clip_eps
               r    == lossOut.ratio
               term == [i \in Batch |->
                           Larger((0 - adv[i]) * r[i],
                                  (0 - adv[i]) * Limited(r[i], eps))]
           IN  /\ lossOut.result.err = NoErr
               /\ lossOut.result.logs["losses/policy_loss"]
                      = [num |-> SumSeq(term), den |-> BatchLen(lossIn.data)]
               /\ \A i \in Batch :
                      (adv[i] > 0 /\ r[i] > One + eps)
                          => /\ term[i] = (0 - adv[i]) * (One + eps)
                             /\ term[i] # (0 - adv[i]) * r[i]
                             /\ pg_loss_term(eps, adv[i], r[i]) = term[i]

C7_Witness ==
    /\ Evaluated("policy")
    /\ BatchLen(lossIn.data) = 2
    /\ lossIn.data.advantages.v[1] > 0
    /\ lossOut.ratio[1] > One + lossIn.self.clip_eps
    /\ lossIn.self.clip_eps > 0
    /\ lossIn.data.advantages.v[2] < 0

(* the value the clipped branch uses, as the claim states it *)
Saturated(new, old, eps) ==
    IF new - old > eps THEN old + eps
    ELSE IF old - new > eps THEN old - eps
    ELSE new

(* C8: with clip_vf_loss set, a sample whose new value is further than eps from
   its old value enters the clipped branch as old + eps (new above old) or
   old - eps (new below old), and the value loss is half the batch mean of
   max((new - return)^2, (clipped value - return)^2). *)
C8_ValueClipping ==
    (Evaluated("value") /\ lossIn.self.clip_vf_loss)
        => LET new  == lossOut.new_values
               old  == lossIn.data.values.v
               ret  == lossIn.data.returns.v
               eps  == lossIn.self.clip_eps
               term == [i \in Batch |->
                           Larger(Sq(new[i] - ret[i]),
                                  Sq(Saturated(new[i], old[i], eps) - ret[i]))]
           IN  /\ lossOut.result.err = NoErr
               /\ lossOut.result.logs["losses/value_function"]
                      = [num |-> SumSeq(term), den |-> 2 * BatchLen(lossIn.data)]
               /\ \A i \in Batch :
                      Abs(new[i] - old[i]) > eps
                          => /\ v_clipped(eps, new[i], old[i])
                                    = (IF new[i] > old[i] THEN old[i] + eps
                                       ELSE old[i] - eps)
                             /\ vf_loss_term(TRUE, eps, new[i], old[i], ret[i]) = term[i]

C8_Witness ==
    /\ Evaluated("value") /\ lossIn.self.clip_vf_loss
    /\ BatchLen(lossIn.data) = 2
    /\ lossIn.self.clip_eps > 0
    /\ lossOut.new_values[1] - lossIn.data.values.v[1] > lossIn.self.clip_eps
    /\ lossIn.data.values.v[2] - lossOut.new_values[2] > lossIn.self.clip_eps

SomeDeltaExceedsEps ==
    \E i \in Batch :
        Abs(lossOut.new_values[i] - lossIn.data.values.v[i]) > lossIn.self.clip_eps

SomeClippedErrorLarger ==
    \E i \in Batch :
        Sq(Saturated(lossOut.new_values[i], lossIn.data.values.v[i],
                     lossIn.self.clip_eps) - lossIn.data.returns.v[i])
            > Sq(lossOut.new_values[i] - lossIn.data.returns.v[i])

ClippedLoss == lossOut.clipped.logs["losses/value_function"]

UnclippedLoss == lossOut.unclipped.logs["losses/value_function"]

(* C9 as stated: for the same rollout and parameters, the value loss with
   clip_vf_loss set differs from the value loss with it unset whenever some
   sample's new value is further than eps from its old value. *)
C9_LossesDifferWheneverDeltaExceedsEps ==
    (Evaluated("value") /\ SomeDeltaExceedsEps) => ClippedLoss # UnclippedLoss

(* C9 amended: for the same rollout and parameters, the value loss with
   clip_vf_loss set differs from (is larger than) the value loss with it unset
   exactly when some sample's clipped squared error (old value +- eps against
   the return) is larger than its unclipped squared error; such a sample has
   its new value further than eps from its old value, but a sample of that
   kind whose clipped value is no further from the return leaves the two
   losses equal. *)
C9_LossesDifferIffClippedErrorLarger ==
    Evaluated("value")
        => /\ lossOut.clipped.err = NoErr /\ lossOut.unclipped.err = NoErr
           /\ ClippedLoss.den = UnclippedLoss.den
           /\ (ClippedLoss # UnclippedLoss) <=> SomeClippedErrorLarger
           /\ ClippedLoss.num >= UnclippedLoss.num
           /\ SomeClippedErrorLarger => SomeDeltaExceedsEps
           /\ lossOut.result = (IF lossIn.self.clip_vf_loss THEN lossOut.clipped
                                ELSE lossOut.unclipped)

C9_Witness ==
    /\ Evaluated("value")
    /\ BatchLen(lossIn.data) = 2
    /\ SomeDeltaExceedsEps
    /\ SomeClippedErrorLarger
    /\ ClippedLoss # UnclippedLoss

C9_WitnessEqual ==
    /\ Evaluated("value")
    /\ SomeDeltaExceedsEps
    /\ ClippedLoss = UnclippedLoss

====
